---- MODULE Spec2Model ----
(***************************************************************************)
(* mlcheck: a CSV dataset validator (src/src/main.rs).                     *)
(*                                                                         *)
(* The state is the command line (cmd, target), the file the path names    *)
(* (file), the position of main / inspect_dataset / validate_dataset (pc), *)
(* the locals df and deduped of those functions, what has been printed     *)
(* (overview, columnList, missing, duplicates, targetOut), the divisors of *)
(* every f64 percentage division performed (divisors) and the process      *)
(* exit status (exitCode).                                                 *)
(*                                                                         *)
(* An Option<T> is a sequence of length 0 (None) or 1 (Some).  A cell of a *)
(* column is an Option<Int>: <<>> is a null, <<v>> a value.  Column dtypes *)
(* and the estimated size are printed only and are not modelled.           *)
(***************************************************************************)
EXTENDS Integers, Sequences, FiniteSets, TLC

VARIABLES cmd, target, file, pc, df, deduped,
          overview, columnList, missing, duplicates, targetOut,
          divisors, exitCode

vars == <<cmd, target, file, pc, df, deduped,
          overview, columnList, missing, duplicates, targetOut,
          divisors, exitCode>>

(***************************************************************************)
(* Bounds and input sets.                                                  *)
(***************************************************************************)
MaxRows == 3

Header == <<"id", "age">>
\* the text of a cell of each column; "" is an empty cell
IdCells == {"", "1", "2"}
AgeCells == {"", "30"}
TargetNames == {"id", "age", "score"}

None == <<>>
Some(v) == <<v>>

DataRows == {<<i, a>> : i \in IdCells, a \in AgeCells}

RECURSIVE SeqsUpTo(_, _)
SeqsUpTo(S, n) ==
    IF n = 0 THEN {<<>>}
    ELSE LET shorter == SeqsUpTo(S, n - 1)
         IN  shorter \cup {Append(s, x) : s \in {t \in shorter : Len(t) = n - 1}, x \in S}

\* A file is missing, or holds lines: none at all (an empty file), or a header
\* line followed by data rows.
Files ==
    {[exists |-> FALSE, lines |-> <<>>], [exists |-> TRUE, lines |-> <<>>]}
    \cup {[exists |-> TRUE, lines |-> <<Header>> \o rows] : rows \in SeqsUpTo(DataRows, MaxRows)}

(***************************************************************************)
(* read_csv: the header line gives the column names, every data row one    *)
(* entry per column, an empty cell a null.  A missing file and a file      *)
(* without a header line are errors.                                       *)
(***************************************************************************)
ParseInt(s) ==
    CASE s = "1" -> 1
      [] s = "2" -> 2
      [] s = "30" -> 30

ParseCell(s) == IF s = "" THEN None ELSE Some(ParseInt(s))

ReadCsv(f) ==
    IF ~f.exists \/ Len(f.lines) = 0
    THEN [ok |-> FALSE, table |-> [names |-> <<>>, cols |-> <<>>]]
    ELSE LET names == f.lines[1]
             n == Len(f.lines) - 1
         IN  [ok |-> TRUE,
              table |-> [names |-> names,
                         cols |-> [c \in 1..Len(names) |->
                                     [r \in 1..n |-> ParseCell(f.lines[r + 1][c])]]]]

\* DataFrame::height, DataFrame::width
Height(d) == IF Len(d.cols) = 0 THEN 0 ELSE Len(d.cols[1])
Width(d) == Len(d.cols)

Init ==
    /\ cmd \in {"inspect", "validate"}
    /\ target \in {None} \cup {Some(t) : t \in TargetNames}
    /\ cmd = "inspect" => target = None
    /\ file \in Files
    /\ pc = "main"
    /\ df = None
    /\ deduped = None
    /\ overview = None
    /\ columnList = None
    /\ missing = None
    /\ duplicates = None
    /\ targetOut = None
    /\ divisors = {}
    /\ exitCode = None

(***************************************************************************)
(* inspect                                                                 *)
(***************************************************************************)
InspectLoad ==
    /\ pc = "main" /\ cmd = "inspect"
    /\ ReadCsv(file).ok
    /\ df' = Some(ReadCsv(file).table)
    /\ pc' = "inspect_report"
    /\ UNCHANGED <<cmd, target, file, deduped, overview, columnList, missing,
                   duplicates, targetOut, divisors, exitCode>>

InspectLoadFail ==
    /\ pc = "main" /\ cmd = "inspect"
    /\ ~ReadCsv(file).ok
    /\ pc' = "exit"
    /\ exitCode' = Some(1)
    /\ UNCHANGED <<cmd, target, file, df, deduped, overview, columnList, missing,
                   duplicates, targetOut, divisors>>

InspectReport ==
    /\ pc = "inspect_report"
    /\ overview' = Some([rows |-> Height(df[1]), columns |-> Width(df[1])])
    /\ columnList' = Some(df[1].names)
    /\ pc' = "exit"
    /\ exitCode' = Some(0)
    /\ UNCHANGED <<cmd, target, file, df, deduped, missing, duplicates, targetOut,
                   divisors>>

(***************************************************************************)
(* Library operations validate_dataset calls on a column or a frame.       *)
(***************************************************************************)
\* Column::null_count
NullCount(col) == Cardinality({i \in 1..Len(col) : col[i] = None})

\* Series::n_unique: the number of distinct entries of the column, a null
\* being an entry like any other (one more distinct entry when the column
\* holds a null).
NUnique(col) ==
    Cardinality({col[i][1] : i \in {j \in 1..Len(col) : col[j] # None}})
    + (IF NullCount(col) > 0 THEN 1 ELSE 0)

\* DataFrame::column: the index of the column of that name, None when no
\* column has it.
ColumnIndex(d, name) ==
    IF \E c \in 1..Width(d) : d.names[c] = name
    THEN Some(CHOOSE c \in 1..Width(d) :
                 d.names[c] = name /\ \A b \in 1..(c - 1) : d.names[b] # name)
    ELSE None

RowAt(d, r) == [c \in 1..Width(d) |-> d.cols[c][r]]

\* The rows UniqueKeepStrategy::First keeps: a row is kept unless an earlier
\* row is equal to it in every column, null = null included.
RECURSIVE KeepFirst(_, _, _)
KeepFirst(d, r, kept) ==
    IF r > Height(d) THEN kept
    ELSE IF \E k \in 1..Len(kept) : RowAt(d, kept[k]) = RowAt(d, r)
         THEN KeepFirst(d, r + 1, kept)
         ELSE KeepFirst(d, r + 1, Append(kept, r))

\* Unique with nulls compared as unequal: a row holding a null is never a
\* duplicate of an earlier row.
RECURSIVE KeepFirstNullsDistinct(_, _, _)
KeepFirstNullsDistinct(d, r, kept) ==
    IF r > Height(d) THEN kept
    ELSE IF /\ \A c \in 1..Width(d) : d.cols[c][r] # None
            /\ \E k \in 1..Len(kept) : RowAt(d, kept[k]) = RowAt(d, r)
         THEN KeepFirstNullsDistinct(d, r + 1, kept)
         ELSE KeepFirstNullsDistinct(d, r + 1, Append(kept, r))

UniqueNullsDistinct(d) ==
    LET kept == KeepFirstNullsDistinct(d, 1, <<>>)
    IN  [names |-> d.names,
         cols |-> [c \in 1..Width(d) |-> [k \in 1..Len(kept) |-> d.cols[c][kept[k]]]]]

\* Unique with UniqueKeepStrategy::None: every row that has a duplicate is
\* dropped, its first occurrence too.
UniqueKeepNone(d) ==
    LET all == KeepFirst(d, 1, <<>>)
        kept == SelectSeq(all, LAMBDA r :
                    \A q \in 1..Height(d) : q # r => RowAt(d, q) # RowAt(d, r))
    IN  [names |-> d.names,
         cols |-> [c \in 1..Width(d) |-> [k \in 1..Len(kept) |-> d.cols[c][kept[k]]]]]

\* LazyFrame::unique(None, UniqueKeepStrategy::First).collect() on a clone
\* (only the height of the result is read, so the order of its rows, which
\* the engine does not fix, is taken to be file order)
Unique(d) ==
    LET kept == KeepFirst(d, 1, <<>>)
    IN  [names |-> d.names,
         cols |-> [c \in 1..Width(d) |-> [k \in 1..Len(kept) |-> d.cols[c][kept[k]]]]]

\* Percentage with the decimals after the first cut off instead of rounded.
PercentageTruncated(n, h) ==
    IF h = 0 THEN <<>>
    ELSE LET q == (1000 * n) \div h
         IN  <<q \div 10, q % 10>>

\* (n as f64 / h as f64) * 100.0 printed with {:.1}: <<whole, tenth>>, the
\* value rounded to one decimal, ties to even; <<>> when the quotient is not
\* a number or infinite (h = 0).
Percentage(n, h) ==
    IF h = 0 THEN <<>>
    ELSE LET q == (1000 * n) \div h
             r == (1000 * n) % h
             t == IF 2 * r > h \/ (2 * r = h /\ q % 2 = 1) THEN q + 1 ELSE q
         IN  <<t \div 10, t % 10>>

(***************************************************************************)
(* validate                                                                *)
(***************************************************************************)
ValidateLoad ==
    /\ pc = "main" /\ cmd = "validate"
    /\ ReadCsv(file).ok
    /\ df' = Some(ReadCsv(file).table)
    /\ pc' = "overview"
    /\ UNCHANGED <<cmd, target, file, deduped, overview, columnList, missing,
                   duplicates, targetOut, divisors, exitCode>>

\* The load error swallowed (read_csv(path).unwrap_or_default()): validate
\* goes on with an empty frame.
ValidateLoadFailIgnored ==
    /\ pc = "main" /\ cmd = "validate"
    /\ ~ReadCsv(file).ok
    /\ df' = Some([names |-> <<>>, cols |-> <<>>])
    /\ pc' = "overview"
    /\ UNCHANGED <<cmd, target, file, deduped, overview, columnList, missing,
                   duplicates, targetOut, divisors, exitCode>>

ValidateLoadFail ==
    /\ pc = "main" /\ cmd = "validate"
    /\ ~ReadCsv(file).ok
    /\ pc' = "exit"
    /\ exitCode' = Some(1)
    /\ UNCHANGED <<cmd, target, file, df, deduped, overview, columnList, missing,
                   duplicates, targetOut, divisors>>

Overview ==
    /\ pc = "overview"
    /\ overview' = Some([rows |-> Height(df[1]), columns |-> Width(df[1])])
    /\ pc' = "missing"
    /\ UNCHANGED <<cmd, target, file, df, deduped, columnList, missing, duplicates,
                   targetOut, divisors, exitCode>>

\* The loop with the percentage computed for every column, before the test
\* null_count > 0.
RECURSIVE MissingLoopUnguarded(_, _, _)
MissingLoopUnguarded(d, c, acc) ==
    IF c > Width(d) THEN acc
    ELSE LET null_count == NullCount(d.cols[c])
             percentage == Percentage(null_count, Height(d))
             divided == [acc EXCEPT !.divs = acc.divs \cup {Height(d)}]
         IN  IF null_count > 0
             THEN MissingLoopUnguarded(d, c + 1,
                    [lines |-> Append(acc.lines,
                                  [name |-> d.names[c], nullCount |-> null_count,
                                   percentage |-> percentage]),
                     has_missing |-> TRUE,
                     divs |-> divided.divs])
             ELSE MissingLoopUnguarded(d, c + 1, divided)

\* The loop with has_missing assigned on every column (has_missing =
\* null_count > 0), so that the last column decides it.
RECURSIVE MissingLoopLastWins(_, _, _)
MissingLoopLastWins(d, c, acc) ==
    IF c > Width(d) THEN acc
    ELSE LET null_count == NullCount(d.cols[c])
         IN  IF null_count > 0
             THEN MissingLoopLastWins(d, c + 1,
                    [lines |-> Append(acc.lines,
                                  [name |-> d.names[c], nullCount |-> null_count,
                                   percentage |-> Percentage(null_count, Height(d))]),
                     has_missing |-> TRUE,
                     divs |-> acc.divs \cup {Height(d)}])
             ELSE MissingLoopLastWins(d, c + 1, [acc EXCEPT !.has_missing = FALSE])

\* The loop over df.get_columns(): acc holds the lines printed so far, the
\* has_missing flag and the divisors used.
RECURSIVE MissingLoop(_, _, _)
MissingLoop(d, c, acc) ==
    IF c > Width(d) THEN acc
    ELSE LET null_count == NullCount(d.cols[c])
         IN  IF null_count > 0
             THEN MissingLoop(d, c + 1,
                    [lines |-> Append(acc.lines,
                                  [name |-> d.names[c], nullCount |-> null_count,
                                   percentage |-> Percentage(null_count, Height(d))]),
                     has_missing |-> TRUE,
                     divs |-> acc.divs \cup {Height(d)}])
             ELSE MissingLoop(d, c + 1, acc)

MissingCensus(d) ==
    LET res == MissingLoop(d, 1, [lines |-> <<>>, has_missing |-> FALSE, divs |-> {}])
    IN  [lines |-> res.lines, noMissing |-> ~res.has_missing, divs |-> res.divs]

MissingValues ==
    /\ pc = "missing"
    /\ LET res == MissingCensus(df[1])
       IN  /\ missing' = Some([lines |-> res.lines, noMissing |-> res.noMissing])
           /\ divisors' = divisors \cup res.divs
    /\ pc' = "duplicates"
    /\ UNCHANGED <<cmd, target, file, df, deduped, overview, columnList, duplicates,
                   targetOut, exitCode>>

\* The duplicates section once collect() has returned Ok(u).
DuplicateCensus(d, u) ==
    LET n == Height(d) - Height(u)
    IN  IF n > 0
        THEN [count |-> n, noDuplicates |-> FALSE,
              percentage |-> Percentage(n, Height(d)), divs |-> {Height(d)}]
        ELSE [count |-> n, noDuplicates |-> TRUE, percentage |-> <<>>, divs |-> {}]

\* The deduplication done on df itself instead of on a clone.
DuplicatesInPlace ==
    /\ pc = "duplicates"
    /\ LET u == Unique(df[1])
           res == DuplicateCensus(df[1], u)
       IN  /\ deduped' = Some(u)
           /\ df' = Some(u)
           /\ duplicates' = Some([count |-> res.count, noDuplicates |-> res.noDuplicates,
                                  percentage |-> res.percentage])
           /\ divisors' = divisors \cup res.divs
    /\ pc' = "target"
    /\ UNCHANGED <<cmd, target, file, overview, columnList, missing, targetOut,
                   exitCode>>

Duplicates ==
    /\ pc = "duplicates"
    /\ LET u == Unique(df[1])
           res == DuplicateCensus(df[1], u)
       IN  /\ deduped' = Some(u)
           /\ duplicates' = Some([count |-> res.count, noDuplicates |-> res.noDuplicates,
                                  percentage |-> res.percentage])
           /\ divisors' = divisors \cup res.divs
    /\ pc' = "target"
    /\ UNCHANGED <<cmd, target, file, df, overview, columnList, missing, targetOut,
                   exitCode>>

\* The target section with the lookup's error returned (df.column(..)?): a
\* name that matches no column ends the command with an error.
TargetCensusStrict(d, name) ==
    LET ix == ColumnIndex(d, name)
    IN  IF ix # None
        THEN LET series == d.cols[ix[1]]
                 null_count == NullCount(series)
             IN  [found |-> TRUE, unique |-> NUnique(series), nullCount |-> null_count,
                  noMissing |-> ~(null_count > 0),
                  percentage |-> IF null_count > 0
                                 THEN Percentage(null_count, Height(d)) ELSE <<>>,
                  divs |-> IF null_count > 0 THEN {Height(d)} ELSE {},
                  exit |-> 0]
        ELSE [found |-> FALSE, unique |-> 0, nullCount |-> 0, noMissing |-> FALSE,
              percentage |-> <<>>, divs |-> {}, exit |-> 1]

\* The target section for Some(target_col), n_unique() having returned Ok.
TargetCensus(d, name) ==
    LET ix == ColumnIndex(d, name)
    IN  IF ix # None
        THEN LET series == d.cols[ix[1]]
                 null_count == NullCount(series)
             IN  [found |-> TRUE, unique |-> NUnique(series), nullCount |-> null_count,
                  noMissing |-> ~(null_count > 0),
                  percentage |-> IF null_count > 0
                                 THEN Percentage(null_count, Height(d)) ELSE <<>>,
                  divs |-> IF null_count > 0 THEN {Height(d)} ELSE {},
                  exit |-> 0]
        ELSE [found |-> FALSE, unique |-> 0, nullCount |-> 0, noMissing |-> FALSE,
              percentage |-> <<>>, divs |-> {}, exit |-> 0]

TargetColumn ==
    /\ pc = "target"
    /\ target # None
    /\ LET res == TargetCensus(df[1], target[1])
       IN  /\ targetOut' = Some([found |-> res.found, unique |-> res.unique,
                                 nullCount |-> res.nullCount, noMissing |-> res.noMissing,
                                 percentage |-> res.percentage])
           /\ divisors' = divisors \cup res.divs
           /\ exitCode' = Some(res.exit)
    /\ pc' = "exit"
    /\ UNCHANGED <<cmd, target, file, df, deduped, overview, columnList, missing,
                   duplicates>>

NoTarget ==
    /\ pc = "target"
    /\ target = None
    /\ pc' = "exit"
    /\ exitCode' = Some(0)
    /\ UNCHANGED <<cmd, target, file, df, deduped, overview, columnList, missing,
                   duplicates, targetOut, divisors>>

\* collect() returns Err: the ? of line 103 returns it from validate_dataset
\* and main.
DuplicatesCollectErr ==
    /\ pc = "duplicates"
    /\ pc' = "exit"
    /\ exitCode' = Some(1)
    /\ UNCHANGED <<cmd, target, file, df, deduped, overview, columnList, missing,
                   duplicates, targetOut, divisors>>

\* n_unique() returns Err: the ? of line 123 returns it from validate_dataset
\* and main, the target section cut short.
TargetNUniqueErr ==
    /\ pc = "target"
    /\ target # None
    /\ ColumnIndex(df[1], target[1]) # None
    /\ pc' = "exit"
    /\ exitCode' = Some(1)
    /\ UNCHANGED <<cmd, target, file, df, deduped, overview, columnList, missing,
                   duplicates, targetOut, divisors>>

\* The engine's operations return Ok.
Next ==
    \/ InspectLoad
    \/ InspectLoadFail
    \/ InspectReport
    \/ ValidateLoad
    \/ ValidateLoadFail
    \/ Overview
    \/ MissingValues
    \/ Duplicates
    \/ TargetColumn
    \/ NoTarget

Spec == Init /\ [][Next]_vars

\* collect() and n_unique() return a PolarsResult: either may be an Err.
NextFallible ==
    \/ Next
    \/ DuplicatesCollectErr
    \/ TargetNUniqueErr

SpecFallible == Init /\ [][NextFallible]_vars
(***************************************************************************)
(* Properties.                                                             *)
(***************************************************************************)
Loaded == df # None
AtExit == pc = "exit"
DistinctRows(d) == {RowAt(d, r) : r \in 1..Height(d)}
NullRows(d, c) == {r \in 1..Height(d) : d.cols[c][r] = None}
FirstOccurrences(d) ==
    {r \in 1..Height(d) : \A q \in 1..(r - 1) : RowAt(d, q) # RowAt(d, r)}

\* C1: the duplicate count validate reports is the row count minus the
\* number of distinct rows (null equal to null), and the rows kept by the
\* deduplication are the first occurrences, in file order, of each distinct
\* row, each once.
C1_DuplicateCount ==
    duplicates # None =>
        /\ duplicates[1].count = Height(df[1]) - Cardinality(DistinctRows(df[1]))
        /\ Height(deduped[1]) = Cardinality(FirstOccurrences(df[1]))
        /\ DistinctRows(deduped[1]) = {RowAt(df[1], r) : r \in FirstOccurrences(df[1])}
        /\ Cardinality(DistinctRows(deduped[1])) = Height(deduped[1])

\* two equal rows that hold a null were counted as one distinct row
C1_Witness ==
    /\ duplicates # None
    /\ duplicates[1].count = 2
    /\ \E r \in 1..Height(df[1]) :
          /\ r \notin FirstOccurrences(df[1])
          /\ \E c \in 1..Width(df[1]) : df[1].cols[c][r] = None

\* C2: the missing-value section lists a column iff it has a null, with that
\* column's number of nulls, in table column order, and prints 'no missing
\* values' iff no column has a null.
C2_MissingCensus ==
    missing # None =>
        LET d == df[1]
            m == missing[1]
            withNulls == {c \in 1..Width(d) : NullRows(d, c) # {}}
        IN  /\ Len(m.lines) = Cardinality(withNulls)
            /\ \A k \in 1..Len(m.lines) :
                  \E c \in withNulls :
                     /\ m.lines[k].name = d.names[c]
                     /\ m.lines[k].nullCount = Cardinality(NullRows(d, c))
                     /\ Cardinality({b \in withNulls : b <= c}) = k
            /\ m.noMissing <=> withNulls = {}

\* both columns have nulls and are listed, id before age
C2_Witness ==
    /\ missing # None
    /\ Len(missing[1].lines) = 2
    /\ missing[1].lines[1].name = "id"
    /\ missing[1].lines[1].nullCount = 2
    /\ missing[1].lines[2].name = "age"
    /\ missing[1].lines[2].nullCount = 1
    /\ ~missing[1].noMissing

\* C3 as claimed: the unique-value count of a found target column is its
\* number of distinct non-null values.
C3_UniqueExcludesNulls ==
    (targetOut # None /\ targetOut[1].found) =>
        LET col == df[1].cols[ColumnIndex(df[1], target[1])[1]]
        IN  targetOut[1].unique =
               Cardinality({col[r][1] : r \in {q \in 1..Len(col) : col[q] # None}})

\* C4: a target name that matches no column gives the 'not found' result,
\* with the overview, the missing-value and the duplicate sections printed
\* and exit status 0.
C4_TargetNotFound ==
    (AtExit /\ cmd = "validate" /\ Loaded /\ target # None
       /\ \A c \in 1..Width(df[1]) : df[1].names[c] # target[1]) =>
        /\ targetOut # None
        /\ ~targetOut[1].found
        /\ overview # None
        /\ missing # None
        /\ duplicates # None
        /\ exitCode = Some(0)

C4_Witness ==
    /\ AtExit /\ cmd = "validate" /\ Loaded
    /\ target = Some("score")
    /\ Height(df[1]) = 2
    /\ targetOut # None /\ ~targetOut[1].found
    /\ exitCode = Some(0)

LoadFails(f) == ~f.exists \/ f.lines = <<>>

\* C5: when the load fails, inspect and validate end with a non-zero exit
\* status and print no section; and no section is ever printed without a
\* loaded table.
C5_LoadFailureFatal ==
    /\ (LoadFails(file) /\ pc # "main") =>
          /\ AtExit
          /\ exitCode # None /\ exitCode # Some(0)
    /\ (LoadFails(file) \/ ~Loaded) =>
          /\ overview = None /\ columnList = None /\ missing = None
          /\ duplicates = None /\ targetOut = None /\ deduped = None
    /\ LoadFails(file) => ~Loaded

C5_Witness ==
    /\ AtExit /\ cmd = "validate" /\ file.exists /\ LoadFails(file)
    /\ exitCode = Some(1)

\* C6 as claimed: once the table is loaded, validate ends with exit status 0.
C6_OnlyLoadFailuresAbort ==
    (AtExit /\ cmd = "validate" /\ Loaded) =>
        /\ exitCode = Some(0)
        /\ duplicates # None

\* C7: no percentage division has the row count 0 as its divisor; validate
\* on a zero-row table ends with exit status 0, an empty missing-value
\* section, 0 duplicates and, for a target that is found, no missing values,
\* having divided nothing.
C7_ZeroRows ==
    /\ \A h \in divisors : h > 0
    /\ (cmd = "validate" /\ Loaded /\ Height(df[1]) = 0) =>
          /\ divisors = {}
          /\ missing # None => (missing[1].lines = <<>> /\ missing[1].noMissing)
          /\ duplicates # None =>
                (duplicates[1].count = 0 /\ duplicates[1].noDuplicates)
          /\ (targetOut # None /\ targetOut[1].found) =>
                (targetOut[1].noMissing /\ targetOut[1].nullCount = 0)
          /\ AtExit => exitCode = Some(0)

C7_Witness ==
    /\ AtExit /\ cmd = "validate" /\ Loaded
    /\ Height(df[1]) = 0 /\ Width(df[1]) = 2
    /\ target = Some("age")
    /\ targetOut # None /\ targetOut[1].found

\* id,age / 1,30 / 2, / 2,
ExampleFile ==
    [exists |-> TRUE, lines |-> <<Header, <<"1", "30">>, <<"2", "">>, <<"2", "">>>>]

ExampleDone == AtExit /\ cmd = "validate" /\ file = ExampleFile /\ target = Some("age")

\* C8 as claimed: on the example file validate reports 3 rows, 2 columns, 1
\* duplicate row and 1 null (33.3%) in column age, in the missing-value
\* section and in the target section.
C8_ExampleAsClaimed ==
    ExampleDone =>
        /\ overview = Some([rows |-> 3, columns |-> 2])
        /\ duplicates[1].count = 1
        /\ missing[1].lines =
              <<[name |-> "age", nullCount |-> 1, percentage |-> <<33, 3>>]>>
        /\ targetOut[1].nullCount = 1
        /\ targetOut[1].percentage = <<33, 3>>

\* C8 amended: on the example file validate reports 3 rows, 2 columns, 1
\* duplicate row (33.3%) and 2 nulls (66.7%) in column age, in the
\* missing-value section and in the target section.
C8_Example ==
    ExampleDone =>
        /\ overview = Some([rows |-> 3, columns |-> 2])
        /\ duplicates[1].count = 1
        /\ duplicates[1].percentage = <<33, 3>>
        /\ missing[1].lines =
              <<[name |-> "age", nullCount |-> 2, percentage |-> <<66, 7>>]>>
        /\ ~missing[1].noMissing
        /\ targetOut[1].found
        /\ targetOut[1].nullCount = 2
        /\ targetOut[1].percentage = <<66, 7>>

C8_Witness == ExampleDone /\ exitCode = Some(0) /\ targetOut # None

\* C9: the loaded table is never modified, and the result of each check is
\* that of the check applied to the table as loaded (and the target name),
\* whichever other checks have run and whether or not a target was given.
C9_ChecksIndependent ==
    Loaded =>
        LET t == ReadCsv(file).table
        IN  /\ df = Some(t)
            /\ missing # None =>
                  missing = Some([lines |-> MissingCensus(t).lines,
                                  noMissing |-> MissingCensus(t).noMissing])
            /\ duplicates # None =>
                  /\ duplicates[1].count = DuplicateCensus(t, Unique(t)).count
                  /\ duplicates[1].percentage = DuplicateCensus(t, Unique(t)).percentage
            /\ targetOut # None =>
                  /\ targetOut[1].found = TargetCensus(t, target[1]).found
                  /\ targetOut[1].unique = TargetCensus(t, target[1]).unique
                  /\ targetOut[1].nullCount = TargetCensus(t, target[1]).nullCount
                  /\ targetOut[1].percentage = TargetCensus(t, target[1]).percentage

\* the target section printed after a deduplication that dropped rows with
\* nulls in the target column
C9_Witness ==
    /\ AtExit /\ cmd = "validate" /\ Loaded
    /\ duplicates # None /\ duplicates[1].count = 2
    /\ targetOut # None /\ targetOut[1].found /\ targetOut[1].nullCount = 3

\* C10: the deduplicated table has no more rows than the loaded one and at
\* least one when the loaded one has any, so the duplicate count is between
\* 0 and rowCount - 1; 'no duplicates' is printed iff the count is 0.
C10_DuplicateBounds ==
    duplicates # None =>
        /\ deduped # None
        /\ Height(deduped[1]) <= Height(df[1])
        /\ Height(df[1]) > 0 => Height(deduped[1]) >= 1
        /\ duplicates[1].count >= 0
        /\ Height(df[1]) > 0 => duplicates[1].count <= Height(df[1]) - 1
        /\ duplicates[1].noDuplicates <=> duplicates[1].count = 0

\* every row but the first is a duplicate
C10_Witness ==
    /\ duplicates # None
    /\ Height(df[1]) = 3
    /\ duplicates[1].count = 2
    /\ ~duplicates[1].noDuplicates
====
